---- MODULE Spec2Model ----
(***************************************************************************)
(* Conversion layer of activitist (src/json/model_conv.rs, src/json/mod.rs) *)
(* between the domain model (crate::model) and the serde wire shapes.       *)
(*                                                                          *)
(* Representation                                                           *)
(*   Option<T>            <<>> is None, <<x>> is Some(x)                    *)
(*   Vec<T>               a sequence                                        *)
(*   HashMap<String, T>   a function whose domain is a set of strings       *)
(*   Result<T, Box<Error>> [ok |-> TRUE, v |-> x] or [ok |-> FALSE, err |-> k]*)
(*                        k = "serde"  for serde_json::Error                *)
(*                        k = "chrono" for chrono::ParseError               *)
(*   serde_json::Value    a record tagged by t                              *)
(*   enum values          <<variant, payload>>                              *)
(***************************************************************************)
EXTENDS Integers, Sequences, FiniteSets, TLC

VARIABLES ty, cur, hist

vars == <<ty, cur, hist>>

(* The conversions are mutually recursive: an Object holds ObjectOrLinks,
   an ObjectOrLink holds an Object, a Context holds Contexts. *)
RECURSIVE FracNanos(_, _, _, _)
RECURSIVE serialize(_, _)
RECURSIVE deserialize(_, _)
RECURSIVE from_model(_, _)
RECURSIVE to_model(_, _)

----------------------------------------------------------------------------
(* Option, Result *)

None == <<>>

Some(x) == <<x>>

Ok(x) == [ok |-> TRUE, v |-> x]

Err(k) == [ok |-> FALSE, err |-> k]

(* a value of an enum: the variant and its payload *)
Variant(tag, v) == <<tag, v>>

Tag(x) == x[1]

Val(x) == x[2]

(* the `?` operator over a vector of results: the first Err in evaluation
   order is returned, otherwise the vector of the unwrapped values *)
FirstErr(rs) ==
  LET bad == {i \in DOMAIN rs : ~rs[i].ok}
  IN  rs[CHOOSE i \in bad : \A j \in bad : i <= j]

(* the values converted before the first Err, returned as if all were Ok *)
SeqResults_mut(rs) ==
  IF \A i \in DOMAIN rs : rs[i].ok
    THEN Ok([i \in DOMAIN rs |-> rs[i].v])
    ELSE Ok([i \in 1..((CHOOSE k \in DOMAIN rs : ~rs[k].ok /\ \A m \in 1..(k - 1) : rs[m].ok) - 1)
               |-> rs[i].v])

SeqResults(rs) ==
  IF \A i \in DOMAIN rs : rs[i].ok
    THEN Ok([i \in DOMAIN rs |-> rs[i].v])
    ELSE Err(FirstErr(rs).err)

(* the `?` over the values of a map *)
MapResults(rs) ==
  IF \A k \in DOMAIN rs : rs[k].ok
    THEN Ok([k \in DOMAIN rs |-> rs[k].v])
    ELSE Err(rs[CHOOSE k \in DOMAIN rs : ~rs[k].ok].err)

(* Result<Option<T>>: map Ok(x) to Ok(Some(x)) *)
OkSome(r) == IF r.ok THEN Ok(Some(r.v)) ELSE r

----------------------------------------------------------------------------
(* serde_json::Value *)

JNull == [t |-> "Null"]

JBool(b) == [t |-> "Bool", b |-> b]

JNum(n) == [t |-> "Number", n |-> n]

JStr(s) == [t |-> "String", s |-> s]

JArr(a) == [t |-> "Array", a |-> a]

JObj(o) == [t |-> "Object", o |-> o]

EmptyMap == <<>>

(* f64: a finite number, NaN or an infinity *)
Finite(x) == [class |-> "finite", x |-> x]

NaN == [class |-> "nan", x |-> 0]

Infinity == [class |-> "inf", x |-> 1]

----------------------------------------------------------------------------
(* chrono::DateTime<Utc>: days since 1970-01-01, second of the day and
   nanosecond; a leap second is nanos >= 1000000000, as chrono stores it *)

Digit == <<"0", "1", "2", "3", "4", "5", "6", "7", "8", "9">>

IsDigit(c) == \E i \in 1..10 : Digit[i] = c

DigitVal(c) == (CHOOSE i \in 1..10 : Digit[i] = c) - 1

Pad2(n) == Digit[(n \div 10) + 1] \o Digit[(n % 10) + 1]

Pad4(n) == Pad2(n \div 100) \o Pad2(n % 100)

Ch(s, i) == SubSeq(s, i, i)

AllDigits(s, i, j) == \A k \in i..j : IsDigit(Ch(s, k))

Num2(s, i) == DigitVal(Ch(s, i)) * 10 + DigitVal(Ch(s, i + 1))

Num4(s, i) == Num2(s, i) * 100 + Num2(s, i + 2)

IsLeapYear(y) == (y % 4 = 0 /\ y % 100 # 0) \/ y % 400 = 0

DaysInMonth(y, m) ==
  IF m = 2 THEN (IF IsLeapYear(y) THEN 29 ELSE 28)
  ELSE IF m \in {4, 6, 9, 11} THEN 30 ELSE 31

(* proleptic Gregorian date -> days since the epoch *)
days_from_civil(y0, m, d) ==
  LET y   == IF m <= 2 THEN y0 - 1 ELSE y0
      era == y \div 400
      yoe == y - era * 400
      mp  == (m + 9) % 12
      doy == (153 * mp + 2) \div 5 + d - 1
      doe == yoe * 365 + yoe \div 4 - yoe \div 100 + doy
  IN  era * 146097 + doe - 719468

(* days since the epoch -> <<year, month, day>> *)
civil_from_days(z0) ==
  LET z   == z0 + 719468
      era == z \div 146097
      doe == z - era * 146097
      yoe == (doe - doe \div 1460 + doe \div 36524 - doe \div 146096) \div 365
      doy == doe - (365 * yoe + yoe \div 4 - yoe \div 100)
      mp  == (5 * doy + 2) \div 153
      d   == doy - (153 * mp + 2) \div 5 + 1
      m   == IF mp < 10 THEN mp + 3 ELSE mp - 9
      y   == yoe + era * 400 + (IF m <= 2 THEN 1 ELSE 0)
  IN  <<y, m, d>>

(* DateTime::to_rfc3339_opts(SecondsFormat::Secs, true): whole seconds, the
   fraction is dropped, the zero offset of Utc is written as Z *)
to_rfc3339_opts_mut(dt) ==
  LET ymd == civil_from_days(dt.days)
      sec == (dt.secs % 60) + (IF dt.nanos >= 1000000000 THEN 1 ELSE 0)
  IN  Pad4(ymd[1]) \o "-" \o Pad2(ymd[2]) \o "-" \o Pad2(ymd[3]) \o "T"
        \o Pad2(dt.secs \div 3600) \o ":" \o Pad2((dt.secs \div 60) % 60)
        \o ":" \o Pad2(sec) \o "+00:00"

to_rfc3339_opts(dt) ==
  LET ymd == civil_from_days(dt.days)
      sec == (dt.secs % 60) + (IF dt.nanos >= 1000000000 THEN 1 ELSE 0)
  IN  Pad4(ymd[1]) \o "-" \o Pad2(ymd[2]) \o "-" \o Pad2(ymd[3]) \o "T"
        \o Pad2(dt.secs \div 3600) \o ":" \o Pad2((dt.secs \div 60) % 60)
        \o ":" \o Pad2(sec) \o "Z"

(* the digits s[i..j] of a fraction as nanoseconds (digits past the ninth
   are dropped) *)
FracNanos(s, i, j, scale) ==
  IF i > j \/ scale = 0 THEN 0
  ELSE DigitVal(Ch(s, i)) * scale + FracNanos(s, i + 1, j, scale \div 10)

(* end of the run of digits starting at position i (i - 1 when none) *)
DigitsEnd(s, i) ==
  LET ends == {k \in (i - 1)..Len(s) : AllDigits(s, i, k)
                                         /\ (k = Len(s) \/ ~IsDigit(Ch(s, k + 1)))}
  IN  CHOOSE k \in ends : TRUE

(* the offset text s[i..Len(s)]: Z, z or (+|-)hh:mm; seconds east of UTC *)
ParseOffset(s, i) ==
  IF i = Len(s) /\ Ch(s, i) \in {"Z", "z"} THEN Ok(0)
  ELSE IF i + 5 = Len(s) /\ Ch(s, i) \in {"+", "-"} /\ AllDigits(s, i + 1, i + 2)
          /\ Ch(s, i + 3) = ":" /\ AllDigits(s, i + 4, i + 5)
          /\ Num2(s, i + 1) < 24 /\ Num2(s, i + 4) < 60
    THEN Ok((IF Ch(s, i) = "-" THEN -1 ELSE 1)
              * (Num2(s, i + 1) * 3600 + Num2(s, i + 4) * 60))
  ELSE Err("chrono")

(* DateTime::parse_from_rfc3339(s).with_timezone(&Utc) *)
parse_from_rfc3339(s) ==
  IF Len(s) < 20 THEN Err("chrono")
  ELSE IF ~(AllDigits(s, 1, 4) /\ Ch(s, 5) = "-" /\ AllDigits(s, 6, 7)
            /\ Ch(s, 8) = "-" /\ AllDigits(s, 9, 10)
            /\ Ch(s, 11) \in {"T", "t", " "}
            /\ AllDigits(s, 12, 13) /\ Ch(s, 14) = ":" /\ AllDigits(s, 15, 16)
            /\ Ch(s, 17) = ":" /\ AllDigits(s, 18, 19))
    THEN Err("chrono")
  ELSE
    LET y    == Num4(s, 1)
        m    == Num2(s, 6)
        d    == Num2(s, 9)
        h    == Num2(s, 12)
        mi   == Num2(s, 15)
        sc   == Num2(s, 18)
        fend == IF Ch(s, 20) = "." THEN DigitsEnd(s, 21) ELSE 19
        off  == ParseOffset(s, fend + 1)
    IN  IF m < 1 \/ m > 12 \/ d < 1 \/ d > DaysInMonth(y, m)
           \/ h > 23 \/ mi > 59 \/ sc > 60
           \/ (Ch(s, 20) = "." /\ fend < 21)
          THEN Err("chrono")
        ELSE IF ~off.ok THEN off
        ELSE
          LET leap  == sc = 60
              local == h * 3600 + mi * 60 + (IF leap THEN 59 ELSE sc)
              utc   == local - off.v
              nanos == (IF Ch(s, 20) = "." THEN FracNanos(s, 21, fend, 100000000) ELSE 0)
                         + (IF leap THEN 1000000000 ELSE 0)
          IN  Ok([days  |-> days_from_civil(y, m, d) + utc \div 86400,
                  secs  |-> utc % 86400,
                  nanos |-> nanos])

(* a from_model that fails on a date with a sub-second part *)
DateTime_from_model_mut(self) ==
  IF self.nanos # 0 THEN Err("chrono") ELSE Ok(to_rfc3339_opts(self))

(* impl ModelConv for DateTime<Utc> *)
DateTime_from_model(self) == Ok(to_rfc3339_opts(self))

DateTime_to_model(origin) == parse_from_rfc3339(origin)

----------------------------------------------------------------------------
(* Wire shapes: one entry per struct field, in declaration order.
     name  the Rust field          key  the JSON property (serde rename)
     t     the field's type        opt  TRUE for Option<t>
   ObjectFields also records how Object::from_model / Object::to_model
   convert the field:
     conv = "opt"    from_model_opt / to_model_opt on item
     conv = "lax"    to_lax_array / from_lax_array of item
     conv = "boxed"  boxed_from_model_opt / boxed_to_model_opt on item
     conv = "url"    the url field
     conv = "map"    a map, empty <-> absent
     conv = "actor"  a member of actor_items
     conv = "clone"  copied as is *)

TypeCoercionFields == <<
  [name |-> "id", key |-> "@id", t |-> "String", opt |-> FALSE],
  [name |-> "typ", key |-> "@type", t |-> "String", opt |-> TRUE]>>

KeyFields == <<
  [name |-> "id", key |-> "id", t |-> "String", opt |-> FALSE],
  [name |-> "owner", key |-> "owner", t |-> "String", opt |-> FALSE],
  [name |-> "public_key_pem", key |-> "publicKeyPem", t |-> "String", opt |-> TRUE]>>

LinkFields == <<
  [name |-> "schema_context", key |-> "schema_context", t |-> "Context", opt |-> TRUE],
  [name |-> "id", key |-> "id", t |-> "String", opt |-> TRUE],
  [name |-> "typ", key |-> "typ", t |-> "Value", opt |-> TRUE],
  [name |-> "href", key |-> "href", t |-> "String", opt |-> FALSE],
  [name |-> "height", key |-> "height", t |-> "usize", opt |-> TRUE],
  [name |-> "hreflang", key |-> "hreflang", t |-> "String", opt |-> TRUE],
  [name |-> "media_type", key |-> "media_type", t |-> "Value", opt |-> TRUE],
  [name |-> "rel", key |-> "rel", t |-> "Value", opt |-> TRUE],
  [name |-> "width", key |-> "width", t |-> "usize", opt |-> TRUE]>>

ObjectFields == <<
  [name |-> "schema_context", key |-> "@context", t |-> "Context", opt |-> TRUE, conv |-> "opt", item |-> "Context"],
  [name |-> "id", key |-> "id", t |-> "String", opt |-> TRUE, conv |-> "clone", item |-> "-"],
  [name |-> "typ", key |-> "type", t |-> "Value", opt |-> TRUE, conv |-> "lax", item |-> "String"],
  [name |-> "attachment", key |-> "attachment", t |-> "Value", opt |-> TRUE, conv |-> "lax", item |-> "ObjectOrLink"],
  [name |-> "attributed_to", key |-> "attributeTo", t |-> "Value", opt |-> TRUE, conv |-> "lax", item |-> "ObjectOrLink"],
  [name |-> "audience", key |-> "audience", t |-> "Value", opt |-> TRUE, conv |-> "lax", item |-> "ObjectOrLink"],
  [name |-> "bcc", key |-> "bcc", t |-> "Value", opt |-> TRUE, conv |-> "lax", item |-> "ObjectOrLink"],
  [name |-> "bto", key |-> "bto", t |-> "Value", opt |-> TRUE, conv |-> "lax", item |-> "ObjectOrLink"],
  [name |-> "cc", key |-> "cc", t |-> "Value", opt |-> TRUE, conv |-> "lax", item |-> "ObjectOrLink"],
  [name |-> "context", key |-> "context", t |-> "Value", opt |-> TRUE, conv |-> "lax", item |-> "ObjectOrLink"],
  [name |-> "generator", key |-> "generator", t |-> "Value", opt |-> TRUE, conv |-> "lax", item |-> "ObjectOrLink"],
  [name |-> "icon", key |-> "icon", t |-> "Value", opt |-> TRUE, conv |-> "lax", item |-> "ObjectOrLink"],
  [name |-> "image", key |-> "image", t |-> "Value", opt |-> TRUE, conv |-> "lax", item |-> "ObjectOrLink"],
  [name |-> "in_reply_to", key |-> "inReplyTo", t |-> "Value", opt |-> TRUE, conv |-> "lax", item |-> "ObjectOrLink"],
  [name |-> "location", key |-> "location", t |-> "Value", opt |-> TRUE, conv |-> "lax", item |-> "ObjectOrLink"],
  [name |-> "preview", key |-> "preview", t |-> "Value", opt |-> TRUE, conv |-> "lax", item |-> "ObjectOrLink"],
  [name |-> "replies", key |-> "replies", t |-> "Box<Object>", opt |-> TRUE, conv |-> "boxed", item |-> "Object"],
  [name |-> "tag", key |-> "tag", t |-> "Value", opt |-> TRUE, conv |-> "lax", item |-> "ObjectOrLink"],
  [name |-> "to", key |-> "to", t |-> "Value", opt |-> TRUE, conv |-> "lax", item |-> "ObjectOrLink"],
  [name |-> "url", key |-> "url", t |-> "Value", opt |-> TRUE, conv |-> "url", item |-> "Link"],
  [name |-> "content", key |-> "content", t |-> "Value", opt |-> TRUE, conv |-> "lax", item |-> "String"],
  [name |-> "content_map", key |-> "contentMap", t |-> "HashMap<String,String>", opt |-> TRUE, conv |-> "map", item |-> "-"],
  [name |-> "name", key |-> "name", t |-> "Value", opt |-> TRUE, conv |-> "lax", item |-> "String"],
  [name |-> "name_map", key |-> "nameMap", t |-> "HashMap<String,String>", opt |-> TRUE, conv |-> "map", item |-> "-"],
  [name |-> "duration", key |-> "duration", t |-> "String", opt |-> TRUE, conv |-> "clone", item |-> "-"],
  [name |-> "media_type", key |-> "mediaType", t |-> "Value", opt |-> TRUE, conv |-> "lax", item |-> "String"],
  [name |-> "end_time", key |-> "endTime", t |-> "String", opt |-> TRUE, conv |-> "opt", item |-> "DateTime"],
  [name |-> "published", key |-> "published", t |-> "String", opt |-> TRUE, conv |-> "opt", item |-> "DateTime"],
  [name |-> "summary", key |-> "summary", t |-> "Value", opt |-> TRUE, conv |-> "lax", item |-> "String"],
  [name |-> "summary_map", key |-> "summaryMap", t |-> "HashMap<String,String>", opt |-> TRUE, conv |-> "map", item |-> "-"],
  [name |-> "updated", key |-> "updated", t |-> "String", opt |-> TRUE, conv |-> "opt", item |-> "DateTime"],
  [name |-> "describes", key |-> "describes", t |-> "Box<Object>", opt |-> TRUE, conv |-> "boxed", item |-> "Object"],
  [name |-> "inbox", key |-> "inbox", t |-> "String", opt |-> TRUE, conv |-> "actor", item |-> "-"],
  [name |-> "outbox", key |-> "outbox", t |-> "String", opt |-> TRUE, conv |-> "actor", item |-> "-"],
  [name |-> "following", key |-> "following", t |-> "String", opt |-> TRUE, conv |-> "actor", item |-> "-"],
  [name |-> "followers", key |-> "followers", t |-> "String", opt |-> TRUE, conv |-> "actor", item |-> "-"],
  [name |-> "preferred_username", key |-> "preferredUsername", t |-> "String", opt |-> TRUE, conv |-> "actor", item |-> "-"],
  [name |-> "endpoints", key |-> "endpoints", t |-> "HashMap<String,String>", opt |-> TRUE, conv |-> "actor", item |-> "-"],
  [name |-> "actor", key |-> "actor", t |-> "Value", opt |-> TRUE, conv |-> "lax", item |-> "ObjectOrLink"],
  [name |-> "instrument", key |-> "instrument", t |-> "Value", opt |-> TRUE, conv |-> "lax", item |-> "ObjectOrLink"],
  [name |-> "origin", key |-> "origin", t |-> "Value", opt |-> TRUE, conv |-> "lax", item |-> "ObjectOrLink"],
  [name |-> "object", key |-> "object", t |-> "Value", opt |-> TRUE, conv |-> "lax", item |-> "ObjectOrLink"],
  [name |-> "result", key |-> "result", t |-> "Value", opt |-> TRUE, conv |-> "lax", item |-> "ObjectOrLink"],
  [name |-> "target", key |-> "target", t |-> "Value", opt |-> TRUE, conv |-> "lax", item |-> "ObjectOrLink"],
  [name |-> "total_items", key |-> "totalItems", t |-> "usize", opt |-> TRUE, conv |-> "clone", item |-> "-"],
  [name |-> "current", key |-> "current", t |-> "Box<ObjectOrLink>", opt |-> TRUE, conv |-> "boxed", item |-> "ObjectOrLink"],
  [name |-> "first", key |-> "first", t |-> "Box<ObjectOrLink>", opt |-> TRUE, conv |-> "boxed", item |-> "ObjectOrLink"],
  [name |-> "last", key |-> "last", t |-> "Box<ObjectOrLink>", opt |-> TRUE, conv |-> "boxed", item |-> "ObjectOrLink"],
  [name |-> "items", key |-> "items", t |-> "Value", opt |-> TRUE, conv |-> "lax", item |-> "ObjectOrLink"],
  [name |-> "ordered_items", key |-> "orderedItems", t |-> "Value", opt |-> TRUE, conv |-> "lax", item |-> "ObjectOrLink"],
  [name |-> "next", key |-> "next", t |-> "Box<ObjectOrLink>", opt |-> TRUE, conv |-> "boxed", item |-> "ObjectOrLink"],
  [name |-> "prev", key |-> "prev", t |-> "Box<ObjectOrLink>", opt |-> TRUE, conv |-> "boxed", item |-> "ObjectOrLink"],
  [name |-> "part_of", key |-> "partOf", t |-> "Box<ObjectOrLink>", opt |-> TRUE, conv |-> "boxed", item |-> "ObjectOrLink"],
  [name |-> "start_index", key |-> "startIndex", t |-> "usize", opt |-> TRUE, conv |-> "clone", item |-> "-"],
  [name |-> "subject", key |-> "subject", t |-> "Box<ObjectOrLink>", opt |-> TRUE, conv |-> "boxed", item |-> "ObjectOrLink"],
  [name |-> "relationship", key |-> "relationship", t |-> "Value", opt |-> TRUE, conv |-> "lax", item |-> "ObjectOrLink"],
  [name |-> "former_type", key |-> "former_type", t |-> "Value", opt |-> TRUE, conv |-> "lax", item |-> "String"],
  [name |-> "deleted", key |-> "deleted", t |-> "String", opt |-> TRUE, conv |-> "opt", item |-> "DateTime"],
  [name |-> "one_of", key |-> "oneOf", t |-> "Value", opt |-> TRUE, conv |-> "lax", item |-> "ObjectOrLink"],
  [name |-> "any_of", key |-> "anyOf", t |-> "Value", opt |-> TRUE, conv |-> "lax", item |-> "ObjectOrLink"],
  [name |-> "closed", key |-> "closed", t |-> "Value", opt |-> TRUE, conv |-> "clone", item |-> "-"],
  [name |-> "accuracy", key |-> "accuracy", t |-> "f64", opt |-> TRUE, conv |-> "clone", item |-> "-"],
  [name |-> "altitude", key |-> "altitude", t |-> "f64", opt |-> TRUE, conv |-> "clone", item |-> "-"],
  [name |-> "latitute", key |-> "latitute", t |-> "f64", opt |-> TRUE, conv |-> "clone", item |-> "-"],
  [name |-> "longitute", key |-> "longitute", t |-> "f64", opt |-> TRUE, conv |-> "clone", item |-> "-"],
  [name |-> "radius", key |-> "radius", t |-> "f64", opt |-> TRUE, conv |-> "clone", item |-> "-"],
  [name |-> "units", key |-> "units", t |-> "String", opt |-> TRUE, conv |-> "clone", item |-> "-"],
  [name |-> "manually_approves_followers", key |-> "manuallyApprovesFollowers", t |-> "bool", opt |-> TRUE, conv |-> "clone", item |-> "-"],
  [name |-> "also_known_as", key |-> "alsoKnownAs", t |-> "Value", opt |-> TRUE, conv |-> "lax", item |-> "String"],
  [name |-> "moved_to", key |-> "movedTo", t |-> "String", opt |-> TRUE, conv |-> "clone", item |-> "-"],
  [name |-> "sensitive", key |-> "sensitive", t |-> "bool", opt |-> TRUE, conv |-> "clone", item |-> "-"],
  [name |-> "featured", key |-> "featured", t |-> "String", opt |-> TRUE, conv |-> "clone", item |-> "-"],
  [name |-> "featured_tags", key |-> "featuredTags", t |-> "String", opt |-> TRUE, conv |-> "clone", item |-> "-"],
  [name |-> "discoverable", key |-> "discoverable", t |-> "bool", opt |-> TRUE, conv |-> "clone", item |-> "-"],
  [name |-> "suspended", key |-> "suspended", t |-> "bool", opt |-> TRUE, conv |-> "clone", item |-> "-"],
  [name |-> "devices", key |-> "devices", t |-> "String", opt |-> TRUE, conv |-> "clone", item |-> "-"],
  [name |-> "public_key", key |-> "publicKey", t |-> "Key", opt |-> TRUE, conv |-> "opt", item |-> "Key"],
  [name |-> "value", key |-> "value", t |-> "String", opt |-> TRUE, conv |-> "clone", item |-> "-"]>>

Names(fields) == {fields[i].name : i \in 1..Len(fields)}

FieldIndex(fields, n) == CHOOSE i \in 1..Len(fields) : fields[i].name = n

ObjectIndex == [n \in Names(ObjectFields) |-> FieldIndex(ObjectFields, n)]

(* the struct value whose field fields[i].name is rs[i].v *)
StructOf(fields, rs) == [n \in Names(fields) |-> rs[FieldIndex(fields, n)].v]

(* the `?` over the fields of a struct literal, in the order they are written *)
Collect(fields, rs) ==
  IF \A i \in DOMAIN rs : rs[i].ok THEN Ok(StructOf(fields, rs))
  ELSE Err(FirstErr(rs).err)

(* the fields of the wire Object that carry the actor layer *)
ActorRequired == {"inbox", "outbox", "followers", "following"}

ActorFields == ActorRequired \cup {"preferred_username", "endpoints"}

(* T::JsonSerdeValue *)
JsonSerdeValue(T) == IF T = "DateTime" THEN "String" ELSE T

----------------------------------------------------------------------------
(* serde: #[derive(Serialize)] with #[skip_serializing_none] *)

(* a struct without #[skip_serializing_none]: None fields written as null *)
SerStruct_mut(fields, w) ==
  LET idx(k) == CHOOSE i \in 1..Len(fields) : fields[i].key = k
      val(i) == IF fields[i].opt THEN w[fields[i].name][1] ELSE w[fields[i].name]
      out(i) == IF fields[i].opt /\ w[fields[i].name] = None THEN JNull
                ELSE serialize(fields[i].t, val(i))
  IN  JObj([k \in {fields[i].key : i \in 1..Len(fields)} |-> out(idx(k))])

(* a struct: one property per field, None fields left out *)
SerStruct(fields, w) ==
  LET present == {i \in 1..Len(fields) : ~fields[i].opt \/ w[fields[i].name] # None}
      keys    == {fields[i].key : i \in present}
      idx(k)  == CHOOSE i \in present : fields[i].key = k
      val(i)  == IF fields[i].opt THEN w[fields[i].name][1] ELSE w[fields[i].name]
  IN  JObj([k \in keys |-> serialize(fields[idx(k)].t, val(idx(k)))])

(* serde_json::to_value of a wire value of type T; untagged enums write the
   payload of their variant *)
serialize(T, w) ==
  CASE T = "String" -> JStr(w)
    [] T = "usize" -> JNum(w)
    [] T = "f64" -> IF w.class = "finite" THEN JNum(w.x) ELSE JNull
    [] T = "bool" -> JBool(w)
    [] T = "Value" -> w
    [] T = "HashMap<String,String>" -> JObj([k \in DOMAIN w |-> JStr(w[k])])
    [] T = "HashMap<String,Iri>" -> JObj([k \in DOMAIN w |-> serialize("Iri", w[k])])
    [] T = "Vec<Context>" -> JArr([i \in DOMAIN w |-> serialize("Context", w[i])])
    [] T = "TypeCoercion" -> SerStruct(TypeCoercionFields, w)
    [] T = "Iri" ->
         IF Tag(w) = "Direct" THEN serialize("String", Val(w))
         ELSE serialize("TypeCoercion", Val(w))
    [] T = "Context" ->
         IF Tag(w) = "Single" THEN serialize("Iri", Val(w))
         ELSE IF Tag(w) = "Mix" THEN serialize("Vec<Context>", Val(w))
         ELSE serialize("HashMap<String,Iri>", Val(w))
    [] T = "Key" -> SerStruct(KeyFields, w)
    [] T = "Link" -> SerStruct(LinkFields, w)
    [] T \in {"Object", "Box<Object>"} -> SerStruct(ObjectFields, w)
    [] T \in {"ObjectOrLink", "Box<ObjectOrLink>"} ->
         IF Tag(w) = "Uri" THEN serialize("String", Val(w))
         ELSE IF Tag(w) = "Link" THEN serialize("Link", Val(w))
         ELSE serialize("Object", Val(w))

----------------------------------------------------------------------------
(* serde: #[derive(Deserialize)] *)

(* a field of type Option<t> reads null as None *)
DeField(f, v) ==
  IF f.opt
    THEN IF v = JNull THEN Ok(None) ELSE OkSome(deserialize(f.t, v))
    ELSE deserialize(f.t, v)

(* a struct reads a JSON object by property name (unknown properties are
   ignored, a missing Option field is None, a missing required field is an
   error) and a JSON array by position (exactly one element per field) *)
DeStruct(fields, j) ==
  IF j.t = "Object"
    THEN Collect(fields,
           [i \in 1..Len(fields) |->
              IF fields[i].key \in DOMAIN j.o
                THEN DeField(fields[i], j.o[fields[i].key])
                ELSE IF fields[i].opt THEN Ok(None) ELSE Err("serde")])
  ELSE IF j.t = "Array" /\ Len(j.a) = Len(fields)
    THEN Collect(fields, [i \in 1..Len(fields) |-> DeField(fields[i], j.a[i])])
  ELSE Err("serde")

(* Vec<T> and HashMap<String, T> *)
DeVec(T, j) ==
  IF j.t = "Array" THEN SeqResults([i \in DOMAIN j.a |-> deserialize(T, j.a[i])])
  ELSE Err("serde")

DeMap(T, j) ==
  IF j.t = "Object" THEN MapResults([k \in DOMAIN j.o |-> deserialize(T, j.o[k])])
  ELSE Err("serde")

(* the last variant whose result rs[i] is Ok *)
FirstOk_mut(variants, rs) ==
  LET good == {i \in DOMAIN rs : rs[i].ok}
      pick == CHOOSE i \in good : \A k \in good : i >= k
  IN  IF good = {} THEN Err("serde")
      ELSE Ok(Variant(variants[pick].tag, rs[pick].v))

(* the first variant, in declaration order, whose result rs[i] is Ok *)
FirstOk(variants, rs) ==
  LET good == {i \in DOMAIN rs : rs[i].ok}
      pick == CHOOSE i \in good : \A k \in good : i <= k
  IN  IF good = {} THEN Err("serde")
      ELSE Ok(Variant(variants[pick].tag, rs[pick].v))

(* an untagged enum: the variants are tried in declaration order and the
   first that deserializes is taken *)
DeUntagged(variants, j) ==
  FirstOk(variants, [i \in DOMAIN variants |-> deserialize(variants[i].t, j)])

(* enum Iri, enum Context, enum ObjectOrLink *)
IriVariants == <<[tag |-> "Direct", t |-> "String"],
                 [tag |-> "TypeCoercion", t |-> "TypeCoercion"]>>

ContextVariants == <<[tag |-> "Single", t |-> "Iri"],
                     [tag |-> "Mix", t |-> "Vec<Context>"],
                     [tag |-> "TermDefs", t |-> "HashMap<String,Iri>"]>>

ObjectOrLinkVariants == <<[tag |-> "Uri", t |-> "String"],
                          [tag |-> "Link", t |-> "Link"],
                          [tag |-> "Object", t |-> "Object"]>>

(* serde_json::from_value::<T>(j) *)
deserialize(T, j) ==
  CASE T = "String" -> IF j.t = "String" THEN Ok(j.s) ELSE Err("serde")
    [] T = "usize" -> IF j.t = "Number" /\ j.n >= 0 THEN Ok(j.n) ELSE Err("serde")
    [] T = "f64" -> IF j.t = "Number" THEN Ok(Finite(j.n)) ELSE Err("serde")
    [] T = "bool" -> IF j.t = "Bool" THEN Ok(j.b) ELSE Err("serde")
    [] T = "Value" -> Ok(j)
    [] T = "HashMap<String,String>" -> DeMap("String", j)
    [] T = "HashMap<String,Iri>" -> DeMap("Iri", j)
    [] T = "Vec<Context>" -> DeVec("Context", j)
    [] T = "TypeCoercion" -> DeStruct(TypeCoercionFields, j)
    [] T = "Iri" -> DeUntagged(IriVariants, j)
    [] T = "Context" -> DeUntagged(ContextVariants, j)
    [] T = "Key" -> DeStruct(KeyFields, j)
    [] T = "Link" -> DeStruct(LinkFields, j)
    [] T \in {"Object", "Box<Object>"} -> DeStruct(ObjectFields, j)
    [] T \in {"ObjectOrLink", "Box<ObjectOrLink>"} -> DeUntagged(ObjectOrLinkVariants, j)

----------------------------------------------------------------------------
(* crate::model.  model::Object is kept flat: the member x of object_items,
   activity_items, ... is the field x, and actor_items is an Option of the
   ActorItems record. *)

ModelObjectFields == (Names(ObjectFields) \ ActorFields) \cup {"actor_items"}

(* impl From<String> for model::Link *)
Link_from(href) ==
  [schema_context |-> None, id |-> None, typ |-> <<>>, href |-> href,
   height |-> None, hreflang |-> None, media_type |-> <<>>, rel |-> <<>>,
   width |-> None]

----------------------------------------------------------------------------
(* the generic helpers of model_conv.rs *)

from_model_opt(T, origin) ==
  IF origin = None THEN Ok(None) ELSE OkSome(from_model(T, origin[1]))

to_model_opt_mut(T, origin) ==
  IF origin = None THEN Ok(None)
  ELSE IF to_model(T, origin[1]).ok THEN OkSome(to_model(T, origin[1]))
  ELSE Ok(None)

to_model_opt(T, origin) ==
  IF origin = None THEN Ok(None) ELSE OkSome(to_model(T, origin[1]))

boxed_from_model_opt(T, origin) ==
  IF origin = None THEN Ok(None) ELSE OkSome(from_model(T, origin[1]))

boxed_to_model_opt(T, origin) ==
  IF origin = None THEN Ok(None) ELSE OkSome(to_model(T, origin[1]))

(* serde_json::to_value(item.from_model()?)? *)
to_value(T, r) == IF r.ok THEN Ok(serialize(JsonSerdeValue(T), r.v)) ELSE r

(* Ok(Some(Value::Array(dest))) *)
SomeArray(r) == IF r.ok THEN Ok(Some(JArr(r.v))) ELSE r

to_lax_array_mut(T, origin) ==
  IF Len(origin) = 0 THEN Ok(None)
  ELSE SomeArray(SeqResults([i \in DOMAIN origin |->
                               to_value(T, from_model(T, origin[i]))]))

to_lax_array(T, origin) ==
  IF Len(origin) \in {0, 1}
    THEN IF Len(origin) = 1
           THEN OkSome(to_value(T, from_model(T, origin[1])))
           ELSE Ok(None)
    ELSE SomeArray(SeqResults([i \in DOMAIN origin |->
                                 to_value(T, from_model(T, origin[i]))]))

(* T::to_model of every item of inter, in the order given by at *)
to_model_items(T, inter, at) ==
  IF ~inter.ok THEN inter
  ELSE SeqResults([i \in DOMAIN inter.v |-> to_model(T, inter.v[at[i]])])

(* vec![T::to_model(item)?] *)
to_model_item(T, w) ==
  IF ~w.ok THEN w ELSE SeqResults(<<to_model(T, w.v)>>)

from_lax_array_mut(T, origin) ==
  IF origin = None THEN Ok(<<>>)
  ELSE IF origin[1].t = "Array"
    THEN to_model_items(T, DeVec(JsonSerdeValue(T), origin[1]),
                        [i \in DOMAIN origin[1].a |-> Len(origin[1].a) + 1 - i])
    ELSE to_model_item(T, deserialize(JsonSerdeValue(T), origin[1]))

from_lax_array(T, origin) ==
  IF origin = None THEN Ok(<<>>)
  ELSE IF origin[1].t = "Array"
    THEN to_model_items(T, DeVec(JsonSerdeValue(T), origin[1]),
                        [i \in DOMAIN origin[1].a |-> i])
    ELSE to_model_item(T, deserialize(JsonSerdeValue(T), origin[1]))

----------------------------------------------------------------------------
(* impl ModelConv for String *)
String_from_model(self) == Ok(self)

String_to_model(origin) == Ok(origin)

(* impl ModelConv for model::Key *)
Key_from_model(self) ==
  Ok([id |-> self.id, owner |-> self.owner, public_key_pem |-> self.public_key_pem])

Key_to_model(origin) ==
  Ok([id |-> origin.id, owner |-> origin.owner,
      public_key_pem |-> origin.public_key_pem])

(* impl ModelConv for model::Iri *)
Iri_from_model(self) ==
  IF Tag(self) = "Direct" THEN Ok(Variant("Direct", Val(self)))
  ELSE Ok(Variant("TypeCoercion", [id |-> Val(self).id, typ |-> Val(self).typ]))

Iri_to_model(origin) ==
  IF Tag(origin) = "Direct" THEN Ok(Variant("Direct", Val(origin)))
  ELSE Ok(Variant("TypeCoercion", [id |-> Val(origin).id, typ |-> Val(origin).typ]))

(* Ok(Variant(payload?)) *)
OkVariant(tag, r) == IF r.ok THEN Ok(Variant(tag, r.v)) ELSE r

(* impl ModelConv for model::Context *)
Context_from_model(self) ==
  OkVariant(Tag(self),
    CASE Tag(self) = "Single" -> from_model("Iri", Val(self))
      [] Tag(self) = "Mix" ->
           SeqResults([i \in DOMAIN Val(self) |-> from_model("Context", Val(self)[i])])
      [] Tag(self) = "TermDefs" ->
           MapResults([k \in DOMAIN Val(self) |-> from_model("Iri", Val(self)[k])]))

Context_to_model(origin) ==
  OkVariant(Tag(origin),
    CASE Tag(origin) = "Single" -> to_model("Iri", Val(origin))
      [] Tag(origin) = "Mix" ->
           SeqResults([i \in DOMAIN Val(origin) |-> to_model("Context", Val(origin)[i])])
      [] Tag(origin) = "TermDefs" ->
           MapResults([k \in DOMAIN Val(origin) |-> to_model("Iri", Val(origin)[k])]))

(* impl ModelConv for model::Link *)
Link_from_model(self) ==
  Collect(LinkFields,
    <<from_model_opt("Context", self.schema_context),
      Ok(self.id),
      to_lax_array("String", self.typ),
      Ok(self.href),
      Ok(self.height),
      Ok(self.hreflang),
      to_lax_array("String", self.media_type),
      to_lax_array("String", self.rel),
      Ok(self.width)>>)

Link_to_model(origin) ==
  Collect(LinkFields,
    <<to_model_opt("Context", origin.schema_context),
      Ok(origin.id),
      from_lax_array("String", origin.typ),
      Ok(origin.href),
      Ok(origin.height),
      Ok(origin.hreflang),
      from_lax_array("String", origin.media_type),
      from_lax_array("String", origin.rel),
      Ok(origin.width)>>)

(* impl ModelConv for model::ObjectOrLink *)
ObjectOrLink_from_model_mut(self) ==
  IF Tag(self) = "Object"
    THEN OkVariant("Object", from_model("Object", Val(self)))
    ELSE IF Val(self).height = None /\ Val(self).hreflang = None /\ Val(self).id = None
            /\ Val(self).media_type = <<>>
            /\ Val(self).typ = <<>> /\ Val(self).width = None
           THEN Ok(Variant("Uri", Val(self).href))
           ELSE OkVariant("Link", from_model("Link", Val(self)))

ObjectOrLink_from_model(self) ==
  IF Tag(self) = "Object"
    THEN OkVariant("Object", from_model("Object", Val(self)))
    ELSE IF Val(self).height = None /\ Val(self).hreflang = None /\ Val(self).id = None
            /\ Val(self).media_type = <<>> /\ Val(self).rel = <<>>
            /\ Val(self).typ = <<>> /\ Val(self).width = None
           THEN Ok(Variant("Uri", Val(self).href))
           ELSE OkVariant("Link", from_model("Link", Val(self)))

ObjectOrLink_to_model(origin) ==
  CASE Tag(origin) = "Link" -> OkVariant("Link", to_model("Link", Val(origin)))
    [] Tag(origin) = "Uri" -> Ok(Variant("Link", Link_from(Val(origin))))
    [] Tag(origin) = "Object" -> OkVariant("Object", to_model("Object", Val(origin)))

(* impl ModelConv for model::Object: the url field *)
url_from_model_mut(url) ==
  IF url = None THEN Ok(None)
  ELSE OkSome(to_value("Link", from_model("Link", url[1])))

url_from_model(url) ==
  IF url = None THEN Ok(None)
  ELSE IF url[1].height = None /\ url[1].hreflang = None /\ url[1].id = None
          /\ url[1].media_type = <<>> /\ url[1].rel = <<>>
          /\ url[1].typ = <<>> /\ url[1].width = None
    THEN Ok(Some(JStr(url[1].href)))
    ELSE OkSome(to_value("Link", from_model("Link", url[1])))

(* Some(model::Link::to_model(item)?) of the Link read from the url *)
url_link(item) == IF ~item.ok THEN item ELSE OkSome(to_model("Link", item.v))

url_to_model(url) ==
  IF url = None THEN Ok(None)
  ELSE IF url[1].t = "String" THEN Ok(Some(Link_from(url[1].s)))
  ELSE url_link(deserialize("Link", url[1]))

(* impl ModelConv for model::Object: the actor tuple of from_model *)
actor_from_model_mut(actor_items, name) ==
  CASE name = "inbox" -> IF actor_items = None THEN None ELSE Some(actor_items[1].inbox)
    [] name = "preferred_username" ->
         IF actor_items = None THEN Some("") ELSE actor_items[1].preferred_username
    [] OTHER -> None

actor_from_model(actor_items, name) ==
  IF actor_items = None THEN None
  ELSE CASE name \in ActorRequired -> Some(actor_items[1][name])
         [] name = "preferred_username" -> actor_items[1].preferred_username
         [] name = "endpoints" ->
              IF actor_items[1].endpoints = EmptyMap THEN None
              ELSE Some(actor_items[1].endpoints)

(* impl ModelConv for model::Object: actor_items of to_model *)
actor_to_model_mut(origin) ==
  IF origin.inbox # None
    THEN Some([inbox |-> origin.inbox[1],
               outbox |-> IF origin.outbox = None THEN "" ELSE origin.outbox[1],
               following |-> IF origin.following = None THEN "" ELSE origin.following[1],
               followers |-> IF origin.followers = None THEN "" ELSE origin.followers[1],
               preferred_username |-> origin.preferred_username,
               endpoints |-> IF origin.endpoints = None THEN EmptyMap
                             ELSE origin.endpoints[1]])
    ELSE None

actor_to_model(origin) ==
  IF origin.inbox # None /\ origin.outbox # None
     /\ origin.followers # None /\ origin.following # None
    THEN Some([inbox |-> origin.inbox[1],
               outbox |-> origin.outbox[1],
               following |-> origin.following[1],
               followers |-> origin.followers[1],
               preferred_username |-> origin.preferred_username,
               endpoints |-> IF origin.endpoints = None THEN EmptyMap
                             ELSE origin.endpoints[1]])
    ELSE None

(* impl ModelConv for model::Object: one field of the struct literal of
   from_model *)
field_from_model(self, f) ==
  CASE f.conv = "opt" -> from_model_opt(f.item, self[f.name])
    [] f.conv = "lax" -> to_lax_array(f.item, self[f.name])
    [] f.conv = "boxed" -> boxed_from_model_opt(f.item, self[f.name])
    [] f.conv = "url" -> url_from_model(self[f.name])
    [] f.conv = "map" ->
         Ok(IF self[f.name] = EmptyMap THEN None ELSE Some(self[f.name]))
    [] f.conv = "actor" -> Ok(actor_from_model(self.actor_items, f.name))
    [] f.conv = "clone" -> Ok(self[f.name])

(* impl ModelConv for model::Object *)
Object_from_model(self) ==
  Collect(ObjectFields,
          [i \in 1..Len(ObjectFields) |-> field_from_model(self, ObjectFields[i])])

(* one field of the struct literal of to_model *)
field_to_model(origin, f) ==
  CASE f.conv = "opt" -> to_model_opt(f.item, origin[f.name])
    [] f.conv = "lax" -> from_lax_array(f.item, origin[f.name])
    [] f.conv = "boxed" -> boxed_to_model_opt(f.item, origin[f.name])
    [] f.conv = "url" -> url_to_model(origin[f.name])
    [] f.conv = "map" ->
         Ok(IF origin[f.name] = None THEN EmptyMap ELSE origin[f.name][1])
    [] f.conv = "actor" -> Ok(None)
    [] f.conv = "clone" -> Ok(origin[f.name])

(* the model::Object of the converted fields rs *)
ObjectOf(origin, rs) ==
  IF \A i \in DOMAIN rs : rs[i].ok
    THEN Ok([n \in ModelObjectFields |->
               IF n = "actor_items" THEN actor_to_model(origin)
               ELSE rs[ObjectIndex[n]].v])
    ELSE Err(FirstErr(rs).err)

Object_to_model(origin) ==
  ObjectOf(origin,
           [i \in 1..Len(ObjectFields) |-> field_to_model(origin, ObjectFields[i])])

(* T::from_model and T::to_model *)
from_model(T, self) ==
  CASE T = "String" -> String_from_model(self)
    [] T = "DateTime" -> DateTime_from_model(self)
    [] T = "Key" -> Key_from_model(self)
    [] T = "Iri" -> Iri_from_model(self)
    [] T = "Context" -> Context_from_model(self)
    [] T = "Link" -> Link_from_model(self)
    [] T = "ObjectOrLink" -> ObjectOrLink_from_model(self)
    [] T = "Object" -> Object_from_model(self)

to_model(T, origin) ==
  CASE T = "String" -> String_to_model(origin)
    [] T = "DateTime" -> DateTime_to_model(origin)
    [] T = "Key" -> Key_to_model(origin)
    [] T = "Iri" -> Iri_to_model(origin)
    [] T = "Context" -> Context_to_model(origin)
    [] T = "Link" -> Link_to_model(origin)
    [] T = "ObjectOrLink" -> ObjectOrLink_to_model(origin)
    [] T = "Object" -> Object_to_model(origin)
----------------------------------------------------------------------------
(* Bounds of the instance *)

(* the longest sequence (lax array, @context list) among the inputs *)
MaxLen == 2

(* the number of conversions applied in a row to one input *)
MaxSteps == 5

SeqsUpTo(S, n) == UNION {[1..k -> S] : k \in 0..n}

(* the object whose property k is f[k] when f has it, else g[k] *)
Merge(f, g) == [k \in (DOMAIN f) \cup (DOMAIN g) |-> IF k \in DOMAIN f THEN f[k] ELSE g[k]]

Prop(k, v) == [x \in {k} |-> v]

----------------------------------------------------------------------------
(* Domain inputs *)

Uri1 == "https://example/1"

Uri2 == "https://example/2"

AsContext == "https://www.w3.org/ns/activitystreams"

SecContext == "https://w3id.org/security/v1"

Direct(s) == Variant("Direct", s)

TypeCoercion(id, typ) == Variant("TypeCoercion", [id |-> id, typ |-> typ])

Single(i) == Variant("Single", i)

Mix(s) == Variant("Mix", s)

TermDefs(m) == Variant("TermDefs", m)

ModelIris == {Direct(AsContext), Direct(SecContext),
              TypeCoercion("as:Public", None), TypeCoercion("as:url", Some("@id"))}

ModelMixItems == {Single(Direct(AsContext)), Single(Direct(SecContext)),
                  TermDefs(Prop("toot", Direct("http://joinmastodon.org/ns#")))}

ModelContexts ==
  {Single(i) : i \in ModelIris}
    \cup {TermDefs(Prop("toot", i)) : i \in ModelIris}
    \cup {TermDefs(Prop("@id", Direct(AsContext))), TermDefs(EmptyMap),
          TermDefs(Merge(Prop("@id", Direct(AsContext)), Prop("@type", Direct("@id"))))}
    \cup {Mix(s) : s \in SeqsUpTo(ModelMixItems, MaxLen)}

ModelDates == {[days |-> 19724, secs |-> 11045, nanos |-> 0],
               [days |-> 19724, secs |-> 11045, nanos |-> 500000000],
               [days |-> 0, secs |-> 0, nanos |-> 0],
               [days |-> 19782, secs |-> 86399, nanos |-> 1999999999],
               [days |-> 11016, secs |-> 43200, nanos |-> 1]}

ModelKeys == {[id |-> "https://example/1#main-key", owner |-> Uri1, public_key_pem |-> None],
              [id |-> "https://example/1#main-key", owner |-> Uri1,
               public_key_pem |-> Some("-----BEGIN PUBLIC KEY-----")]}

ModelStrings == {"Note", "Article", ""}

ModelLinks ==
  {Link_from(Uri1), Link_from(Uri2)}
    \cup {[Link_from(Uri1) EXCEPT !.schema_context = Some(c)] :
            c \in {Single(Direct(AsContext)), Mix(<<Single(Direct(AsContext))>>)}}
    \cup {[Link_from(Uri1) EXCEPT !.rel = r] : r \in SeqsUpTo({"self", "me"}, MaxLen) \ {<<>>}}
    \cup {[Link_from(Uri1) EXCEPT !.id = Some("https://example/l")],
          [Link_from(Uri1) EXCEPT !.typ = <<"Link">>],
          [Link_from(Uri1) EXCEPT !.typ = <<"Link", "Mention">>],
          [Link_from(Uri1) EXCEPT !.height = Some(480)],
          [Link_from(Uri1) EXCEPT !.width = Some(0)],
          [Link_from(Uri1) EXCEPT !.hreflang = Some("en")],
          [Link_from(Uri1) EXCEPT !.media_type = <<"text/html">>],
          [Link_from(Uri1) EXCEPT !.schema_context = Some(Single(Direct(AsContext))),
                                  !.typ = <<"Link">>, !.media_type = <<"text/html">>,
                                  !.rel = <<"self">>]}

(* model::Object with every field empty *)
EmptyObject ==
  [n \in ModelObjectFields |->
     IF n = "actor_items" THEN None
     ELSE IF ObjectFields[ObjectIndex[n]].conv = "lax" THEN <<>>
     ELSE IF ObjectFields[ObjectIndex[n]].conv = "map" THEN EmptyMap
     ELSE None]

With(o, n, v) == [o EXCEPT ![n] = v]

ModelActors ==
  {[inbox |-> "https://example/1/inbox", outbox |-> "https://example/1/outbox",
    following |-> "https://example/1/following", followers |-> "https://example/1/followers",
    preferred_username |-> pu, endpoints |-> ep] :
     pu \in {None, Some("alice")},
     ep \in {EmptyMap, Prop("sharedInbox", "https://example/inbox")}}

(* objects nested in other objects *)
ChildObjects ==
  {EmptyObject,
   With(EmptyObject, "id", Some("https://example/c")),
   With(EmptyObject, "published", Some([days |-> 19724, secs |-> 11045, nanos |-> 0])),
   With(EmptyObject, "schema_context", Some(Mix(<<Single(Direct(AsContext)), Single(Direct(SecContext))>>))),
   With(EmptyObject, "typ", <<"Note">>)}

ModelItems ==
  {Variant("Link", Link_from(Uri1)),
   Variant("Link", [Link_from(Uri2) EXCEPT !.rel = <<"self">>]),
   Variant("Object", With(EmptyObject, "id", Some("https://example/c")))}

ModelObjectOrLinks ==
  {Variant("Link", l) : l \in ModelLinks}
    \cup {Variant("Object", o) : o \in ChildObjects}

(* objects with one group of fields set *)
SimpleObjects ==
  {With(EmptyObject, "schema_context", Some(c)) :
     c \in {Single(Direct(AsContext)), Mix(<<Single(Direct(AsContext)), Single(Direct(SecContext))>>),
            TermDefs(Prop("@id", Direct(AsContext)))}}
    \cup {With(EmptyObject, "id", Some(Uri1))}
    \cup {With(EmptyObject, "typ", s) : s \in SeqsUpTo({"Note", "Article"}, MaxLen)}
    \cup {With(EmptyObject, "attachment", s) : s \in SeqsUpTo(ModelItems, MaxLen)}
    \cup {With(EmptyObject, "to", <<i>>) : i \in ModelObjectOrLinks}
    \cup {With(EmptyObject, "replies", Some(o)) : o \in ChildObjects}
    \cup {With(EmptyObject, "url", Some(l)) : l \in ModelLinks}
    \cup {With(EmptyObject, "content_map", Prop("en", "hello"))}
    \cup {With(EmptyObject, "published", Some(d)) : d \in ModelDates}
    \cup {With(EmptyObject, "deleted", Some(d)) : d \in ModelDates}
    \cup {With(EmptyObject, "actor_items", Some(a)) : a \in ModelActors}
    \cup {With(EmptyObject, "total_items", Some(3)),
          With(EmptyObject, "accuracy", Some(Finite(10))),
          With(EmptyObject, "accuracy", Some(NaN)),
          With(EmptyObject, "radius", Some(Infinity)),
          With(EmptyObject, "sensitive", Some(TRUE)),
          With(EmptyObject, "closed", Some(JBool(TRUE))),
          With(EmptyObject, "value", Some("v"))}
    \cup {With(EmptyObject, "first", Some(i)) : i \in ModelItems}
    \cup {With(EmptyObject, "subject", Some(i)) : i \in ModelItems}
    \cup {With(EmptyObject, "public_key", Some(k)) : k \in ModelKeys}

(* a second group of fields set on top *)
Overlay(o, p) == [n \in ModelObjectFields |-> IF p[n] # EmptyObject[n] THEN p[n] ELSE o[n]]

CoreObjects ==
  {With(EmptyObject, "typ", <<"Person">>),
   With(EmptyObject, "actor_items",
        Some([inbox |-> "https://example/1/inbox", outbox |-> "https://example/1/outbox",
              following |-> "https://example/1/following",
              followers |-> "https://example/1/followers",
              preferred_username |-> Some("alice"), endpoints |-> EmptyMap])),
   With(EmptyObject, "updated", Some([days |-> 19724, secs |-> 11045, nanos |-> 0]))}

ModelObjects == SimpleObjects \cup {Overlay(o, p) : o \in SimpleObjects, p \in CoreObjects}

----------------------------------------------------------------------------
(* Wire inputs: JSON documents *)

ValidDateStrings == {"2024-01-02T03:04:05Z", "2024-01-02T03:04:05.25+09:00",
                     "2024-02-29T23:59:60-01:30", "1970-01-01t00:00:00z"}

BadDateStrings == {"not-a-date", "2024-01-02", "2023-02-29T03:04:05Z",
                   "2024-01-02T03:04:05", "2024-01-02T03:04:05.Z"}

DateStrings == ValidDateStrings \cup BadDateStrings

JsonContextItems == {JStr(AsContext), JStr(SecContext), JNull,
                     JObj(Prop("@id", JStr("as:Public"))),
                     JObj(Prop("toot", JStr("http://joinmastodon.org/ns#")))}

JsonContexts ==
  {JStr(AsContext), JNum(5), JObj(EmptyMap),
   JObj(Prop("@id", JStr("as:Public"))),
   JObj(Prop("@id", JNum(5))),
   JObj(Merge(Prop("@id", JStr("as:url")), Prop("@type", JStr("@id")))),
   JObj(Merge(Prop("@id", JStr("as:url")), Prop("toot", JStr("x")))),
   JObj(Prop("toot", JStr("http://joinmastodon.org/ns#"))),
   JObj(Prop("toot", JObj(Prop("@id", JStr("as:url"))))),
   JObj(Prop("toot", JArr(<<JStr("as:url"), JStr("@id")>>))),
   JObj(Prop("toot", JNum(5)))}
    \cup {JArr(s) : s \in SeqsUpTo(JsonContextItems, MaxLen)}
    \cup {JArr(<<JStr(AsContext), JStr(SecContext), JObj(Prop("toot", JStr("x")))>>),
          JArr(<<JArr(<<JStr(AsContext), JStr(SecContext)>>)>>)}

JsonLinks ==
  {JStr(Uri1), JNum(5), JObj(EmptyMap), JArr(<<>>),
   JObj(Prop("href", JStr(Uri1))),
   JObj(Prop("href", JNum(5))),
   JObj(Prop("id", JStr("https://example/l"))),
   JArr(<<JNull, JNull, JNull, JStr(Uri1), JNull, JNull, JNull, JNull, JNull>>)}
    \cup {JObj(Merge(Prop("href", JStr(Uri1)), p)) :
            p \in {Prop("rel", JStr("self")),
                   Prop("rel", JArr(<<JStr("self"), JStr("me")>>)),
                   Prop("rel", JArr(<<JStr("self")>>)),
                   Prop("rel", JArr(<<>>)),
                   Prop("rel", JNum(5)),
                   Prop("height", JNum(480)),
                   Prop("height", JStr("tall")),
                   Prop("width", JNum(-1)),
                   Prop("hreflang", JStr("en")),
                   Prop("id", JStr("https://example/l")),
                   Prop("name", JStr("a link")),
                   Prop("type", JStr("Link")),
                   Prop("typ", JStr("Link")),
                   Prop("mediaType", JStr("text/html")),
                   Prop("media_type", JStr("text/html")),
                   Prop("@context", JStr(AsContext)),
                   Prop("schema_context", JStr(AsContext)),
                   Prop("schema_context", JArr(<<JStr(AsContext), JStr(SecContext)>>))}}

JsonChildObjects ==
  {JObj(EmptyMap),
   JObj(Prop("id", JStr("https://example/c"))),
   JObj(Prop("type", JStr("Note"))),
   JObj(Prop("type", JArr(<<JStr("Note")>>))),
   JObj(Prop("totalItems", JStr("many"))),
   JObj(Prop("published", JStr("not-a-date"))),
   JObj(Prop("published", JStr("2024-01-02T03:04:05.25+09:00"))),
   JObj(Prop("@context", JArr(<<JStr(AsContext), JStr(SecContext)>>))),
   JObj(Prop("inbox", JStr("https://example/1/inbox")))}

JsonObjectOrLinks == JsonLinks \cup JsonChildObjects

JsonItems == {JStr(Uri1),
              JObj(Merge(Prop("href", JStr(Uri2)), Prop("rel", JStr("self")))),
              JObj(Prop("id", JStr("https://example/c")))}

JsonActorNames == {"inbox", "outbox", "followers", "following"}

(* JSON objects with one group of properties *)
JsonFragments ==
  {EmptyMap}
    \cup {Prop("@context", c) :
            c \in {JStr(AsContext), JNum(5), JArr(<<JStr(AsContext), JStr(SecContext)>>),
                   JObj(Prop("@id", JStr("as:Public"))),
                   JObj(Prop("toot", JStr("http://joinmastodon.org/ns#")))}}
    \cup {Prop("id", v) : v \in {JStr(Uri1), JNum(5), JNull}}
    \cup {Prop("type", JArr(s)) : s \in SeqsUpTo({JStr("Note"), JStr("Article")}, MaxLen)}
    \cup {Prop("type", v) : v \in {JStr("Note"), JNum(5), JArr(<<JStr("Note"), JNum(5)>>)}}
    \cup {Prop("attachment", JArr(s)) : s \in SeqsUpTo(JsonItems, MaxLen)}
    \cup {Prop("attachment", JArr(<<JStr(Uri1), JObj(Prop("published", JStr("not-a-date")))>>)),
          Prop("attachment", JArr(<<JObj(Prop("published", JStr("not-a-date"))), JNum(5)>>))}
    \cup {Prop("to", v) : v \in JsonObjectOrLinks}
    \cup {Prop("replies", v) : v \in JsonChildObjects \cup {JStr(Uri1)}}
    \cup {Prop("url", v) : v \in JsonLinks}
    \cup {Prop("contentMap", v) : v \in {JObj(Prop("en", JStr("hello"))),
                                        JObj(Prop("en", JNum(5))), JObj(EmptyMap)}}
    \cup {Prop(k, JStr(s)) : k \in {"published", "deleted"}, s \in DateStrings}
    \cup {Prop(k, v) : k \in {"endTime", "updated"},
                       v \in {JStr("not-a-date"), JStr("2024-01-02T03:04:05Z"), JNum(5)}}
    \cup {[k \in S |-> JStr("https://example/1/" \o k)] : S \in SUBSET JsonActorNames}
    \cup {Merge([k \in S |-> JStr("https://example/1/" \o k)], p) :
            S \in {{"inbox"}, {"outbox", "followers", "following"}, JsonActorNames},
            p \in {Prop("preferredUsername", JStr("alice")),
                   Prop("endpoints", JObj(Prop("sharedInbox", JStr("https://example/inbox"))))}}
    \cup {Prop("totalItems", v) : v \in {JNum(3), JNum(-1), JStr("many")}}
    \cup {Prop("first", v) : v \in JsonItems \cup {JObj(Merge(Prop("href", JStr(Uri1)),
                                                              Prop("height", JStr("tall"))))}}
    \cup {Prop("publicKey", v) :
            v \in {JObj(Merge(Prop("id", JStr("k")), Prop("owner", JStr(Uri1)))),
                   JObj(Merge(Merge(Prop("id", JStr("k")), Prop("owner", JStr(Uri1))),
                              Prop("publicKeyPem", JStr("-----BEGIN PUBLIC KEY-----")))),
                   JObj(Prop("id", JStr("k"))),
                   JArr(<<JStr("k"), JStr(Uri1), JNull>>)}}
    \cup {Prop("closed", JBool(TRUE)), Prop("sensitive", JBool(TRUE)),
          Prop("sensitive", JStr("yes")), Prop("accuracy", JNum(10)),
          Prop("href", JStr(Uri1)), Prop("value", JStr("v"))}

(* a second group on top *)
JsonCoreFragments ==
  {Prop("type", JNum(5)), Prop("type", JStr("Person")),
   Prop("published", JStr("not-a-date")),
   Prop("deleted", JStr("2024-01-02")),
   Prop("updated", JStr("2024-01-02T03:04:05Z")),
   Prop("value", JNum(5)),
   Prop("preferredUsername", JStr("alice"))}

JsonObjects ==
  {JObj(f) : f \in JsonFragments}
    \cup {JObj(Merge(f, g)) : f \in JsonFragments, g \in JsonCoreFragments}
    \cup {JStr(Uri1), JArr(<<>>), JNull}

(* inputs of the lax array codec *)
ModelStringSeqs == SeqsUpTo(ModelStrings, MaxLen)

ModelObjectOrLinkSeqs ==
  SeqsUpTo(ModelItems, MaxLen)
    \cup {<<i>> : i \in ModelObjectOrLinks}
    \cup {<<Variant("Link", Link_from(Uri1)), i>> : i \in ModelObjectOrLinks}

LaxStrings ==
  {None, Some(JNull), Some(JNum(5)), Some(JArr(<<JStr("Note"), JNum(5)>>)),
   Some(JArr(<<JArr(<<JStr("Note")>>)>>))}
    \cup {Some(JStr(s)) : s \in ModelStrings}
    \cup {Some(JArr(s)) : s \in SeqsUpTo({JStr(x) : x \in ModelStrings}, MaxLen)}

LaxObjectOrLinks ==
  {None, Some(JNull), Some(JArr(<<JStr(Uri1), JNum(5)>>))}
    \cup {Some(v) : v \in JsonObjectOrLinks}
    \cup {Some(JArr(<<v>>)) : v \in JsonObjectOrLinks}
    \cup {Some(JArr(s)) : s \in SeqsUpTo(JsonItems, MaxLen)}

----------------------------------------------------------------------------
(* The state: the type under conversion, the current value and the values it
   was converted from.
     side = "model"  a value of crate::model
     side = "wire"   a value of T::JsonSerdeValue
     side = "json"   a serde_json::Value
     side = "lax"    an Option<Value> holding a lax array
     side = "error"  an Err; v is the kind of the error *)

ConvTypes ==
  {"Object", "Link", "ObjectOrLink", "Context", "DateTime", "Iri", "Key", "String"}

LaxTypes == {"Vec<String>", "Vec<ObjectOrLink>"}

ItemType(T) == IF T = "Vec<String>" THEN "String" ELSE "ObjectOrLink"

Input(side, v) == [op |-> "input", side |-> side, v |-> v]

Step(op, side, r) ==
  IF r.ok THEN [op |-> op, side |-> side, v |-> r.v]
  ELSE [op |-> op, side |-> "error", v |-> r.err]

Init ==
  /\ hist = <<>>
  /\ \/ ty = "Object" /\ \E v \in ModelObjects : cur = Input("model", v)
     \/ ty = "Object" /\ \E v \in JsonObjects : cur = Input("json", v)
     \/ ty = "Link" /\ \E v \in ModelLinks : cur = Input("model", v)
     \/ ty = "Link" /\ \E v \in JsonLinks : cur = Input("json", v)
     \/ ty = "ObjectOrLink" /\ \E v \in ModelObjectOrLinks : cur = Input("model", v)
     \/ ty = "ObjectOrLink" /\ \E v \in JsonObjectOrLinks : cur = Input("json", v)
     \/ ty = "Context" /\ \E v \in ModelContexts : cur = Input("model", v)
     \/ ty = "Context" /\ \E v \in JsonContexts : cur = Input("json", v)
     \/ ty = "DateTime" /\ \E v \in ModelDates : cur = Input("model", v)
     \/ ty = "DateTime" /\ \E v \in DateStrings : cur = Input("wire", v)
     \/ ty = "Iri" /\ \E v \in ModelIris : cur = Input("model", v)
     \/ ty = "Key" /\ \E v \in ModelKeys : cur = Input("model", v)
     \/ ty = "String" /\ \E v \in ModelStrings : cur = Input("model", v)
     \/ ty = "Vec<String>" /\ \E v \in ModelStringSeqs : cur = Input("model", v)
     \/ ty = "Vec<String>" /\ \E v \in LaxStrings : cur = Input("lax", v)
     \/ ty = "Vec<ObjectOrLink>" /\ \E v \in ModelObjectOrLinkSeqs : cur = Input("model", v)
     \/ ty = "Vec<ObjectOrLink>" /\ \E v \in LaxObjectOrLinks : cur = Input("lax", v)

(* T::from_model(&value) *)
FromModel ==
  /\ ty \in ConvTypes /\ cur.side = "model" /\ Len(hist) < MaxSteps
  /\ cur' = Step("from_model", "wire", from_model(ty, cur.v))
  /\ hist' = Append(hist, cur)
  /\ UNCHANGED ty

(* T::to_model(wire) *)
ToModel ==
  /\ ty \in ConvTypes /\ cur.side = "wire" /\ Len(hist) < MaxSteps
  /\ cur' = Step("to_model", "model", to_model(ty, cur.v))
  /\ hist' = Append(hist, cur)
  /\ UNCHANGED ty

(* serde_json::to_value(wire), the second half of JsonSerde::to_value *)
Serialize ==
  /\ ty \in ConvTypes /\ cur.side = "wire" /\ Len(hist) < MaxSteps
  /\ cur' = Step("serialize", "json", Ok(serialize(JsonSerdeValue(ty), cur.v)))
  /\ hist' = Append(hist, cur)
  /\ UNCHANGED ty

(* Deserialize::deserialize(value), the first half of JsonSerde::from_value *)
Deserialize ==
  /\ ty \in ConvTypes /\ cur.side = "json" /\ Len(hist) < MaxSteps
  /\ cur' = Step("deserialize", "wire", deserialize(JsonSerdeValue(ty), cur.v))
  /\ hist' = Append(hist, cur)
  /\ UNCHANGED ty

(* to_lax_array(&items) *)
ToLaxArray ==
  /\ ty \in LaxTypes /\ cur.side = "model" /\ Len(hist) < MaxSteps
  /\ cur' = Step("to_lax_array", "lax", to_lax_array(ItemType(ty), cur.v))
  /\ hist' = Append(hist, cur)
  /\ UNCHANGED ty

(* from_lax_array(wire) *)
FromLaxArray ==
  /\ ty \in LaxTypes /\ cur.side = "lax" /\ Len(hist) < MaxSteps
  /\ cur' = Step("from_lax_array", "model", from_lax_array(ItemType(ty), cur.v))
  /\ hist' = Append(hist, cur)
  /\ UNCHANGED ty

Next == FromModel \/ ToModel \/ Serialize \/ Deserialize \/ ToLaxArray \/ FromLaxArray

Spec == Init /\ [][Next]_vars

----------------------------------------------------------------------------
(* Properties.  The values of a run are numbered from the input: At(1) is
   the input, At(N) the current value, Back(k) the value k conversions ago. *)

N == Len(hist) + 1

At(i) == IF i = N THEN cur ELSE hist[i]

Back(k) == At(N - k)

(* a Link whose height, hreflang, id, media_type, rel, typ and width are
   all empty *)
Compactable(l) ==
  /\ l.height = None /\ l.hreflang = None /\ l.id = None /\ l.media_type = <<>>
  /\ l.rel = <<>> /\ l.typ = <<>> /\ l.width = None

(* a Link with nothing but href *)
OnlyHref(l) == l = Link_from(l.href)

HrefJson(u) == JObj(Prop("href", JStr(u)))

(* the two wire forms of a Link with nothing but href *)
BareOrHref(j) ==
  \/ j.t = "String"
  \/ j.t = "Object" /\ DOMAIN j.o = {"href"} /\ j.o["href"].t = "String"

HrefOf(j) == IF j.t = "String" THEN j.s ELSE j.o["href"].s

(* C1: for every domain Object e, Object::from_model(e) succeeds,
   Object::to_model of that wire shape succeeds, and the result equals e *)
C1_ObjectRoundTrip ==
  (ty = "Object" /\ N >= 2 /\ At(1).side = "model") =>
    /\ At(2).side = "wire"
    /\ (N >= 3 /\ At(3).op = "to_model") =>
         (At(3).side = "model" /\ At(3).v = At(1).v)

(* C2: for every wire Object w on which to_model succeeds, with
   w1 = from_model(to_model(w)): to_model(w1) succeeds and
   from_model(to_model(w1)) = w1 *)
C2_FixedPoint ==
  ty = "Object" =>
    /\ (N >= 4 /\ cur.op = "to_model" /\ Back(1).op = "from_model"
          /\ Back(2).op = "to_model" /\ Back(3).side = "wire")
         => cur.side = "model"
    /\ (N >= 5 /\ cur.op = "from_model" /\ Back(1).op = "to_model"
          /\ Back(2).op = "from_model" /\ Back(3).op = "to_model"
          /\ Back(4).side = "wire")
         => (cur.side = "wire" /\ cur.v = Back(2).v)

(* a document is read, normalised by the first pass (w1 differs from w) and
   reproduced by the second pass *)
C2_Witness ==
  /\ ty = "Object" /\ N = 6 /\ At(1).side = "json"
  /\ cur.op = "from_model" /\ cur.side = "wire"
  /\ At(4).v # At(2).v
  /\ cur.v = At(4).v

(* the encoding of one item of a lax array *)
LaxEncode(T, x) == serialize(JsonSerdeValue(T), from_model(T, x).v)

(* C3: to_lax_array returns None for an empty sequence, Some(the bare
   encoding of the item) for one item, and Some(the array of the encodings,
   same length and order) for two or more *)
C3_ToLaxArray ==
  (ty \in LaxTypes /\ cur.op = "to_lax_array") =>
    LET s == Back(1).v
        T == ItemType(ty)
    IN  /\ cur.side = "lax"
        /\ (Len(s) = 0) => (cur.v = None)
        /\ (Len(s) = 1) => (cur.v = Some(LaxEncode(T, s[1])) /\ cur.v[1].t # "Array")
        /\ (Len(s) >= 2) =>
             (cur.v = Some(JArr([i \in 1..Len(s) |-> LaxEncode(T, s[i])])))

(* a single ObjectOrLink is written bare, as a JSON object *)
C3_Witness ==
  /\ ty = "Vec<ObjectOrLink>" /\ cur.op = "to_lax_array" /\ cur.side = "lax"
  /\ Len(Back(1).v) = 1
  /\ cur.v # None /\ cur.v[1].t = "Object"

(* the decoding of one item of a lax array *)
LaxDecode(T, j) ==
  LET w == deserialize(JsonSerdeValue(T), j)
  IN  IF w.ok THEN to_model(T, w.v) ELSE w

(* C4: from_lax_array returns the empty sequence for an absent value, the
   element-wise decoding in order for an array, a one-element sequence for
   any other value; and from_lax_array(to_lax_array(s)) = s for every
   sequence s of String or ObjectOrLink items *)
C4_FromLaxArray ==
  (ty \in LaxTypes /\ cur.op = "from_lax_array") =>
    LET origin == Back(1).v
        T      == ItemType(ty)
    IN  /\ (origin = None) => (cur.side = "model" /\ cur.v = <<>>)
        /\ (origin # None /\ origin[1].t = "Array"
              /\ \A i \in DOMAIN origin[1].a : LaxDecode(T, origin[1].a[i]).ok)
             => (cur.side = "model"
                   /\ cur.v = [i \in DOMAIN origin[1].a |-> LaxDecode(T, origin[1].a[i]).v])
        /\ (origin # None /\ origin[1].t # "Array" /\ LaxDecode(T, origin[1]).ok)
             => (cur.side = "model" /\ cur.v = <<LaxDecode(T, origin[1]).v>>)
        /\ (N >= 3 /\ Back(1).op = "to_lax_array")
             => (cur.side = "model" /\ cur.v = Back(2).v)

(* the Link of a value of type ty *)
AsLink(v) == IF ty = "Link" THEN v ELSE Val(v)

IsLinkValue(v) == ty = "Link" \/ (ty = "ObjectOrLink" /\ Tag(v) = "Link")

(* C5, writing: a Link with nothing but href is written as the bare href
   string by the paths in types *)
C5_Write(types) ==
  /\ (ty \in types /\ N = 3 /\ At(1).side = "model" /\ cur.op = "serialize"
        /\ IsLinkValue(At(1).v) /\ OnlyHref(AsLink(At(1).v)))
       => (cur.v = JStr(AsLink(At(1).v).href))
  /\ (ty = "Object" /\ N = 2 /\ At(1).side = "model" /\ cur.op = "from_model"
        /\ At(1).v["url"] # None /\ OnlyHref(At(1).v["url"][1]))
       => (cur.side = "wire" /\ cur.v["url"] = Some(JStr(At(1).v["url"][1].href)))

(* C5, reading: the bare string u and the object {href: u} both decode to
   Link{href: u, all else empty} on the paths in types *)
C5_Read(types) ==
  /\ (ty \in types /\ At(1).side = "json" /\ BareOrHref(At(1).v))
       => /\ (N = 2) => (cur.side = "wire")
          /\ (N = 3 /\ cur.op = "to_model")
               => (cur.side = "model" /\ IsLinkValue(cur.v)
                     /\ AsLink(cur.v) = Link_from(HrefOf(At(1).v)))
  /\ (ty = "Object" /\ At(1).side = "json" /\ At(1).v.t = "Object"
        /\ DOMAIN At(1).v.o = {"url"} /\ BareOrHref(At(1).v.o["url"]))
       => /\ (N = 2) => (cur.side = "wire")
          /\ (N = 3 /\ cur.op = "to_model")
               => (cur.side = "model"
                     /\ cur.v["url"] = Some(Link_from(HrefOf(At(1).v.o["url"]))))

(* C5 as claimed: on every path that reads or writes a Link (ObjectOrLink,
   the url field of Object, and Link's own encoding) a Link with nothing but
   href is written as the bare href string, and the bare string and
   {href: u} decode to the same Link *)
C5_Original == C5_Write({"ObjectOrLink", "Link"}) /\ C5_Read({"ObjectOrLink", "Link"})

(* C5 amended: the equivalence holds on the ObjectOrLink path and on the url
   field of Object; Link's own encoding always writes the full shape
   {href: u}, and Link's own decoding rejects the bare string *)
C5_LinkCompaction ==
  /\ C5_Write({"ObjectOrLink"})
  /\ C5_Read({"ObjectOrLink"})
  /\ (ty = "Link" /\ N = 3 /\ At(1).side = "model" /\ cur.op = "serialize"
        /\ OnlyHref(At(1).v))
       => (cur.v = HrefJson(At(1).v.href))
  /\ (ty = "Link" /\ N = 2 /\ At(1).side = "json" /\ At(1).v.t = "String")
       => (cur.side = "error" /\ cur.v = "serde")
  /\ (ty = "Link" /\ N = 3 /\ At(1).side = "json" /\ cur.op = "to_model"
        /\ BareOrHref(At(1).v))
       => (cur.side = "model" /\ cur.v = Link_from(HrefOf(At(1).v)))

(* the url of an Object holds a Link with nothing but href and is written as
   the bare string *)
C5_Witness ==
  /\ ty = "Object" /\ N = 2 /\ At(1).side = "model" /\ cur.op = "from_model"
  /\ At(1).v["url"] = Some(Link_from(Uri1))
  /\ cur.side = "wire" /\ cur.v["url"] = Some(JStr(Uri1))

(* C6: ObjectOrLink::from_model writes an Object as the Object shape, a Link
   as the bare href string iff height, hreflang, id, mediaType, rel, type
   and width are all empty, and as the full Link shape otherwise; a Link
   with href and rel is written as a JSON object and read back identical *)
C6_ObjectOrLinkEncoding ==
  (ty = "ObjectOrLink" /\ N >= 2 /\ At(1).side = "model") =>
    LET x == At(1).v
        w == At(2)
    IN  /\ w.side = "wire"
        /\ (Tag(x) = "Object")
             => (Tag(w.v) = "Object" /\ Val(w.v) = from_model("Object", Val(x)).v)
        /\ (Tag(x) = "Link")
             => /\ (Tag(w.v) = "Uri") <=> Compactable(Val(x))
                /\ (Tag(w.v) = "Uri") => (Val(w.v) = Val(x).href)
                /\ (Tag(w.v) # "Uri")
                     => (Tag(w.v) = "Link" /\ Val(w.v) = from_model("Link", Val(x)).v)
        /\ (Tag(x) = "Link" /\ Val(x).rel # <<>> /\ Val(x).schema_context = None)
             => /\ (cur.op = "serialize") => (cur.v.t = "Object")
                /\ (cur.op = "deserialize") => (cur.side = "wire")
                /\ (cur.op = "to_model") => (cur.side = "model" /\ cur.v = x)

(* Link{href, rel: ["self"]} went through JSON as an object and came back *)
C6_Witness ==
  /\ ty = "ObjectOrLink" /\ N = 5 /\ At(1).side = "model"
  /\ At(1).v = Variant("Link", [Link_from(Uri1) EXCEPT !.rel = <<"self">>])
  /\ At(3).op = "serialize" /\ At(3).v.t = "Object"
  /\ cur.op = "to_model" /\ cur.side = "model" /\ cur.v = At(1).v

(* the wire Object without its actor-layer fields *)
StripActor(w) == [n \in DOMAIN w |-> IF n \in ActorFields THEN None ELSE w[n]]

(* C7: Object::to_model populates the actor sub-record iff inbox, outbox,
   followers and following are all present, copying each to the field of
   the same name; a proper subset does not make the conversion fail and
   leaves no actor sub-record *)
C7_ActorItems ==
  (ty = "Object" /\ cur.op = "to_model") =>
    LET w    == Back(1).v
        all4 == \A n \in ActorRequired : w[n] # None
    IN  /\ (cur.side = "model") <=> to_model("Object", StripActor(w)).ok
        /\ (cur.side = "model")
             => /\ (cur.v["actor_items"] # None) <=> all4
                /\ all4 => \A n \in ActorRequired : cur.v["actor_items"][1][n] = w[n][1]

(* only inbox is on the wire: the conversion succeeds without an actor *)
C7_Witness ==
  /\ ty = "Object" /\ cur.op = "to_model" /\ cur.side = "model"
  /\ Back(1).v["inbox"] # None /\ Back(1).v["outbox"] = None
  /\ cur.v["actor_items"] = None

(* yyyy-mm-ddThh:mm:ssZ *)
IsSecsZ(s) ==
  /\ Len(s) = 20
  /\ AllDigits(s, 1, 4) /\ Ch(s, 5) = "-" /\ AllDigits(s, 6, 7) /\ Ch(s, 8) = "-"
  /\ AllDigits(s, 9, 10) /\ Ch(s, 11) = "T" /\ AllDigits(s, 12, 13)
  /\ Ch(s, 14) = ":" /\ AllDigits(s, 15, 16) /\ Ch(s, 17) = ":"
  /\ AllDigits(s, 18, 19) /\ Ch(s, 20) = "Z"

(* C8: a DateTime is written as an RFC3339 string of whole seconds ending in
   Z; format -> parse -> format is a fixed point, and 2024-01-02T03:04:05Z
   is reproduced byte for byte *)
C8_DateTimeFormat ==
  ty = "DateTime" =>
    /\ (cur.op = "from_model") => (cur.side = "wire" /\ IsSecsZ(cur.v))
    /\ (N >= 3 /\ cur.op = "to_model" /\ Back(1).op = "from_model")
         => (cur.side = "model")
    /\ (N >= 4 /\ cur.op = "from_model" /\ Back(1).op = "to_model"
          /\ Back(2).op = "from_model")
         => (cur.v = Back(2).v)
    /\ (N = 3 /\ At(1).side = "wire" /\ At(1).v = "2024-01-02T03:04:05Z"
          /\ cur.op = "from_model")
         => (cur.v = At(1).v)

(* a date with a fraction of a second was formatted, parsed and formatted
   again to the same text *)
C8_Witness ==
  /\ ty = "DateTime" /\ N = 4 /\ At(1).side = "model" /\ At(1).v.nanos # 0
  /\ At(3).op = "to_model" /\ cur.op = "from_model" /\ cur.v = At(2).v

(* the date fields of the wire Object *)
DateFieldNames ==
  {ObjectFields[i].name : i \in {k \in 1..Len(ObjectFields) :
                                   ObjectFields[k].item = "DateTime"}}

HasBadDate(w) ==
  \E n \in DateFieldNames : w[n] # None /\ ~parse_from_rfc3339(w[n][1]).ok

ClearDates(w) == [n \in DOMAIN w |-> IF n \in DateFieldNames THEN None ELSE w[n]]

(* C9 as claimed: a date field that is a string but not valid RFC3339 makes
   Object::to_model return an error of the value-error kind *)
C9_Original ==
  (ty = "Object" /\ cur.op = "to_model" /\ HasBadDate(Back(1).v))
    => (cur.side = "error" /\ cur.v = "chrono")

(* C9 amended: such a date field makes Object::to_model return an error and
   no Object; the error is the date parse error when every other field of
   the Object converts, and can be a shape error when another field fails *)
C9_BadDate ==
  (ty = "Object" /\ cur.op = "to_model" /\ HasBadDate(Back(1).v))
    => /\ cur.side = "error"
       /\ to_model("Object", ClearDates(Back(1).v)).ok => (cur.v = "chrono")

(* published is "not-a-date" and to_model returned the date parse error *)
C9_Witness ==
  /\ ty = "Object" /\ cur.op = "to_model"
  /\ Back(1).v["published"] = Some("not-a-date")
  /\ cur.side = "error" /\ cur.v = "chrono"

(* C10: a @context that is a bare string decodes to Single(Direct), a list
   to Mix with its elements in order, an object mapping terms to strings to
   TermDefs *)
C10_ContextDecoding ==
  (ty = "Context" /\ At(1).side = "json") =>
    LET j == At(1).v
    IN  /\ (j.t = "String" /\ N >= 2) => (At(2).side = "wire")
        /\ (N = 3 /\ cur.op = "to_model" /\ cur.side = "model")
             => /\ (j.t = "String") => (cur.v = Single(Direct(j.s)))
                /\ (j.t = "Array")
                     => (Tag(cur.v) = "Mix" /\ Len(Val(cur.v)) = Len(j.a))
                /\ (j.t = "Object" /\ \A k \in DOMAIN j.o : j.o[k].t = "String")
                     => (cur.v = TermDefs([k \in DOMAIN j.o |-> Direct(j.o[k].s)]))

(* C11: for every domain Context c, encoding c to its wire value and decoding
   that wire value yields a Context of the same variant that is equal to c *)
C11_ContextRoundTrip ==
  (/\ ty = "Context" /\ At(1).side = "model" /\ N = 5
   /\ At(2).op = "from_model" /\ At(3).op = "serialize"
   /\ At(4).op = "deserialize" /\ At(5).op = "to_model")
    => /\ cur.side = "model"
       /\ Tag(cur.v) = Tag(At(1).v)
       /\ cur.v = At(1).v

LinkWireNames ==
  {"href", "height", "hreflang", "mediaType", "rel", "width", "@context", "id", "type"}

(* C12: the JSON text of a Link uses only the property names href, height,
   hreflang, mediaType, rel, width, @context, id and type; a Link with a
   context, a type and a media type is written with the keys @context, type
   and mediaType, and a Link object is read from those same keys *)
C12_LinkPropertyNames ==
  (ty = "Link") =>
    /\ (/\ N = 3 /\ At(1).side = "model" /\ At(2).op = "from_model"
        /\ cur.op = "serialize" /\ cur.side = "json")
         => /\ DOMAIN cur.v.o \subseteq LinkWireNames
            /\ (At(1).v.schema_context /= None) => ("@context" \in DOMAIN cur.v.o)
            /\ (At(1).v.typ /= <<>>) => ("type" \in DOMAIN cur.v.o)
            /\ (At(1).v.media_type /= <<>>) => ("mediaType" \in DOMAIN cur.v.o)
    /\ (/\ N = 3 /\ At(1).side = "json" /\ At(1).v.t = "Object"
        /\ At(2).op = "deserialize" /\ cur.op = "to_model" /\ cur.side = "model")
         => /\ ("@context" \in DOMAIN At(1).v.o) => (cur.v.schema_context /= None)
            /\ ("type" \in DOMAIN At(1).v.o) => (cur.v.typ /= <<>>)
            /\ ("mediaType" \in DOMAIN At(1).v.o) => (cur.v.media_type /= <<>>)

RECURSIVE NullProperty(_)
(* some property of j, at any depth, has the value null *)
NullProperty(j) ==
  CASE j.t = "Object" ->
         \E k \in DOMAIN j.o : j.o[k].t = "Null" \/ NullProperty(j.o[k])
    [] j.t = "Array" -> \E i \in DOMAIN j.a : NullProperty(j.a[i])
    [] OTHER -> FALSE

(* every optional field of e that is empty (None, an empty sequence or an
   empty map) has no property in the JSON object j *)
EmptyOmitted(fields, e, j) ==
  \A i \in 1..Len(fields) :
    (fields[i].opt /\ fields[i].name \in DOMAIN e /\ e[fields[i].name] = <<>>)
      => (fields[i].key \notin DOMAIN j.o)

EncodedTypes == {"Object", "Link", "Key", "Context"}

StructFields(T) ==
  IF T = "Object" THEN ObjectFields ELSE IF T = "Link" THEN LinkFields ELSE KeyFields

(* C13: the JSON output of encoding a domain Object, Link, Key or Context has
   no property whose value is null; every absent optional field, every empty
   one-or-many sequence and every empty map field is left out *)
C13_NoNulls ==
  (/\ ty \in EncodedTypes /\ N = 3 /\ At(1).side = "model"
   /\ At(2).op = "from_model" /\ cur.op = "serialize")
    => /\ cur.side = "json"
       /\ ~NullProperty(cur.v)
       /\ (ty # "Context") => EmptyOmitted(StructFields(ty), At(1).v, cur.v)
       /\ (ty = "Object" /\ At(1).v.actor_items # None
             /\ At(1).v.actor_items[1].endpoints = EmptyMap)
            => ("endpoints" \notin DOMAIN cur.v.o)

(* the keys of the f64 fields of e that hold NaN or an infinity *)
NonFiniteKeys(fields, e) ==
  {fields[i].key : i \in {k \in 1..Len(fields) :
                            /\ fields[k].t = "f64" /\ e[fields[k].name] # None
                            /\ e[fields[k].name][1].class # "finite"}}

(* C13 as amended: every absent optional field, every empty one-or-many
   sequence and every empty map field is left out of the JSON output, and
   the only properties whose value is null are those of f64 fields that hold
   NaN or an infinity *)
C13_NullOnlyNonFinite ==
  (/\ ty \in EncodedTypes /\ N = 3 /\ At(1).side = "model"
   /\ At(2).op = "from_model" /\ cur.op = "serialize")
    => /\ cur.side = "json"
       /\ (ty # "Object") => ~NullProperty(cur.v)
       /\ (ty = "Object")
            => /\ {k \in DOMAIN cur.v.o : cur.v.o[k].t = "Null"}
                    = NonFiniteKeys(ObjectFields, At(1).v)
               /\ \A k \in DOMAIN cur.v.o : ~NullProperty(cur.v.o[k])
       /\ (ty # "Context") => EmptyOmitted(StructFields(ty), At(1).v, cur.v)
       /\ (ty = "Object" /\ At(1).v.actor_items # None
             /\ At(1).v.actor_items[1].endpoints = EmptyMap)
            => ("endpoints" \notin DOMAIN cur.v.o)

C13_Witness ==
  /\ ty = "Object" /\ N = 3 /\ At(1).side = "model"
  /\ At(2).op = "from_model" /\ cur.op = "serialize" /\ cur.side = "json"
  /\ At(1).v.content_map # EmptyMap /\ At(1).v.name_map = EmptyMap
  /\ At(1).v.attachment = <<>> /\ At(1).v.published = None
  /\ At(1).v.actor_items # None /\ At(1).v.actor_items[1].endpoints = EmptyMap
  /\ DOMAIN cur.v.o = {"contentMap", "inbox", "outbox", "followers", "following",
                       "preferredUsername"}

(* a JSON object with a string href whose other Link fields, where present,
   have the kind the Link shape declares *)
WellTypedLink(j) ==
  /\ j.t = "Object" /\ "href" \in DOMAIN j.o /\ j.o["href"].t = "String"
  /\ \A k \in DOMAIN j.o \cap {"height", "width"} :
       j.o[k].t = "Null" \/ (j.o[k].t = "Number" /\ j.o[k].n >= 0)
  /\ \A k \in DOMAIN j.o \cap {"id", "hreflang"} : j.o[k].t \in {"String", "Null"}
  /\ ("schema_context" \in DOMAIN j.o)
       => (j.o["schema_context"].t = "Null"
             \/ deserialize("Context", j.o["schema_context"]).ok)

(* C14: decoding a wire value as ObjectOrLink: a string u gives
   Link{href: u, all other fields empty} and never fails; any other value is
   decoded as a Link when the Link shape accepts it and as an Object only when
   it does not, so an object with a string href and well-typed Link fields is
   a Link and an object without href is an Object *)
C14_ObjectOrLinkDecoding ==
  (ty = "ObjectOrLink" /\ At(1).side = "json" /\ N >= 2) =>
    LET j == At(1).v
        w == At(2)
    IN  /\ (j.t = "String") => (w.side = "wire" /\ w.v = Variant("Uri", j.s))
        /\ (j.t # "String" /\ deserialize("Link", j).ok)
             => (w.side = "wire" /\ w.v = Variant("Link", deserialize("Link", j).v))
        /\ (j.t # "String" /\ w.side = "wire" /\ Tag(w.v) = "Object")
             => (~deserialize("Link", j).ok /\ w.v = Variant("Object", deserialize("Object", j).v))
        /\ WellTypedLink(j) => (w.side = "wire" /\ Tag(w.v) = "Link")
        /\ (j.t = "Object" /\ "href" \notin DOMAIN j.o /\ w.side = "wire")
             => (Tag(w.v) = "Object")
        /\ (N >= 3 /\ At(3).op = "to_model")
             => /\ (j.t = "String")
                     => (At(3).side = "model" /\ At(3).v = Variant("Link", Link_from(j.s)))
                /\ (At(3).side = "model")
                     => (Tag(At(3).v) = IF Tag(w.v) = "Object" THEN "Object" ELSE "Link")

C14_Witness ==
  /\ ty = "ObjectOrLink" /\ N = 3 /\ At(1).side = "json"
  /\ At(1).v = JObj(Merge(Prop("href", JStr(Uri1)), Prop("name", JStr("a link"))))
  /\ At(2).op = "deserialize" /\ cur.op = "to_model" /\ cur.side = "model"
  /\ cur.v = Variant("Link", Link_from(Uri1))

(* a JSON object with a property of the wrong primitive kind: a height that
   is not a number on an object with href, or a totalItems that is not a
   number *)
WrongKind(j) ==
  /\ j.t = "Object"
  /\ \/ {"href", "height"} \subseteq DOMAIN j.o /\ j.o["height"].t \notin {"Number", "Null"}
     \/ "totalItems" \in DOMAIN j.o /\ j.o["totalItems"].t \notin {"Number", "Null"}

(* j, one of its properties, or an element of one of its array properties
   has a property of the wrong primitive kind *)
HasWrongKind(j) ==
  \/ WrongKind(j)
  \/ /\ j.t = "Object"
     /\ \E k \in DOMAIN j.o :
          \/ WrongKind(j.o[k])
          \/ j.o[k].t = "Array" /\ \E i \in DOMAIN j.o[k].a : WrongKind(j.o[k].a[i])

(* C15: a wire property of the wrong primitive kind, at top level or inside
   a nested ObjectOrLink or url value, always makes the conversion from JSON
   to the domain return an error *)
C15_ShapeError ==
  (/\ ty \in {"Object", "Link", "ObjectOrLink"} /\ At(1).side = "json"
   /\ HasWrongKind(At(1).v) /\ N >= 2)
    => \/ At(2).side = "error"
       \/ (N >= 3 /\ At(3).op = "to_model") => (At(3).side = "error")

(* the JSON value j does not convert to a domain value of type T *)
ItemFails(T, j) ==
  \/ ~deserialize(JsonSerdeValue(T), j).ok
  \/ ~to_model(T, deserialize(JsonSerdeValue(T), j).v).ok

Elements(v) == IF v.t = "Array" THEN v.a ELSE <<v>>

(* the conversion of the property of field f of the JSON object j fails *)
FieldFails(f, v) ==
  CASE f.conv = "lax" -> \E i \in DOMAIN Elements(v) : ItemFails(f.item, Elements(v)[i])
    [] f.conv \in {"opt", "boxed"} -> ItemFails(f.item, v)
    [] f.conv = "url" -> v.t # "String" /\ ItemFails("Link", v)
    [] OTHER -> FALSE

(* some nested conversion of the JSON object j fails *)
SubFails(j) ==
  \E i \in 1..Len(ObjectFields) :
    /\ ObjectFields[i].key \in DOMAIN j.o
    /\ j.o[ObjectFields[i].key].t # "Null"
    /\ FieldFails(ObjectFields[i], j.o[ObjectFields[i].key])

(* C16: when a nested conversion fails (an element of a lax array at any
   position, a boxed sub-object, the @context, the publicKey, the url or a
   date field) the conversion of the Object to the domain returns an error
   and no entity; a lax array with a failing element converts to an error *)
C16_AllOrNothing ==
  /\ (/\ ty = "Object" /\ At(1).side = "json" /\ At(1).v.t = "Object"
      /\ SubFails(At(1).v) /\ N >= 2)
       => \/ At(2).side = "error"
          \/ (N >= 3 /\ At(3).op = "to_model")
               => (At(3).side = "error" /\ At(3).v \in {"serde", "chrono"})
  /\ (/\ ty \in LaxTypes /\ At(1).side = "lax" /\ At(1).v # None /\ N >= 2
      /\ \E i \in DOMAIN Elements(At(1).v[1]) :
           ItemFails(ItemType(ty), Elements(At(1).v[1])[i]))
       => (At(2).side = "error")

C16_Witness ==
  /\ ty = "Object" /\ N = 3 /\ At(1).side = "json"
  /\ At(1).v = JObj(Prop("attachment",
                         JArr(<<JStr(Uri1), JObj(Prop("published", JStr("not-a-date")))>>)))
  /\ At(2).op = "deserialize" /\ At(2).side = "wire"
  /\ cur.op = "to_model" /\ cur.side = "error"

(* C17: in a wire Object produced by Object::from_model, inbox, outbox,
   following and followers are all present or all absent, and
   preferredUsername and endpoints are present only with those four; when
   Object::to_model finds only part of the four, the decoded entity is the
   one decoded from the wire Object without any actor field *)
C17_ActorGroup ==
  (ty = "Object") =>
    /\ (cur.op = "from_model" /\ cur.side = "wire")
         => /\ \A a, b \in ActorRequired : (cur.v[a] = None) <=> (cur.v[b] = None)
            /\ (cur.v.preferred_username # None \/ cur.v.endpoints # None)
                 => (cur.v.inbox # None)
    /\ (/\ cur.op = "serialize" /\ cur.side = "json" /\ Back(1).op = "from_model")
         => /\ \A a, b \in ActorRequired : (a \in DOMAIN cur.v.o) <=> (b \in DOMAIN cur.v.o)
            /\ ({"preferredUsername", "endpoints"} \cap DOMAIN cur.v.o # {})
                 => ("inbox" \in DOMAIN cur.v.o)
    /\ (/\ cur.op = "to_model" /\ cur.side = "model"
        /\ \E a \in ActorRequired : Back(1).v[a] = None)
         => /\ cur.v.actor_items = None
            /\ cur.v = to_model("Object", StripActor(Back(1).v)).v

C17_Witness ==
  /\ ty = "Object" /\ N = 5 /\ At(1).side = "json"
  /\ DOMAIN At(1).v.o = {"inbox", "preferredUsername"}
  /\ At(2).op = "deserialize" /\ At(2).v.preferred_username = Some("alice")
  /\ At(3).op = "to_model" /\ At(3).side = "model" /\ At(3).v.actor_items = None
  /\ At(4).op = "from_model" /\ At(4).v.inbox = None
  /\ cur.op = "serialize" /\ cur.v = JObj(EmptyMap)

(* C18: from_model of every domain value (Object, Link, ObjectOrLink,
   Context, Iri, Key, String, DateTime) and to_lax_array of every sequence
   return Ok, never an error *)
C18_EncodingTotal ==
  /\ (cur.op = "from_model") => (cur.side = "wire")
  /\ (cur.op = "to_lax_array") => (cur.side = "lax")

(* an Object with a boxed sub-object that carries a date, and a date of its
   own, is encoded *)
C18_Witness ==
  /\ ty = "Object" /\ N = 2 /\ At(1).side = "model"
  /\ At(1).v.replies # None /\ At(1).v.replies[1].published # None
  /\ At(1).v.updated # None
  /\ cur.op = "from_model" /\ cur.side = "wire"
  /\ cur.v.replies # None /\ cur.v.updated # None

====
